---- MODULE Spec2Model ----
(***************************************************************************)
(* RemoteRunnerClient (bentoml/_internal/runner/runner_handle/remote.py):  *)
(* the client object, the connectors, sessions and event loops it refers   *)
(* to, the configuration it reads, and the calls made through it.          *)
(***************************************************************************)
EXTENDS Naturals, Sequences, FiniteSets, TLC

\* ------------------------------------------------------------------ bounds
NumTasks == 2      \* calls that may be in progress at once
MaxLoops == 2      \* event loops created during a run
MaxConns == 2      \* connectors created during a run
MaxSess  == 2      \* sessions created during a run
MaxArgs  == 2      \* positional arguments of a call
MaxBatch == 2      \* batch sizes 1..MaxBatch

\* ------------------------------------------------------- optional values
\* Python's None is <<>>, a value v is <<v>>.
None == << >>
Some(v) == << v >>
Val(o) == o[1]

\* ---------------------------------------------------------------- strings
Char(s, i) == SubSeq(s, i, i)

RECURSIVE IndexFrom(_, _, _)
\* the least i >= from with Char(s, i) \in cs, or Len(s) + 1 (str.find)
IndexFrom(s, cs, from) ==
    IF from > Len(s) THEN Len(s) + 1
    ELSE IF Char(s, from) \in cs THEN from
    ELSE IndexFrom(s, cs, from + 1)

StartsWith(s, p) == Len(s) >= Len(p) /\ SubSeq(s, 1, Len(p)) = p

\* sub occurs in s at an index at or after i
ContainsFrom(s, sub, i) ==
    /\ Len(sub) <= Len(s)
    /\ \E j \in i..(Len(s) + 1 - Len(sub)) :
          SubSeq(s, j, j + Len(sub) - 1) = sub

\* sub in s
Contains(s, sub) == ContainsFrom(s, sub, 1)

UpperCase == "ABCDEFGHIJKLMNOPQRSTUVWXYZ"
LowerCase == "abcdefghijklmnopqrstuvwxyz"
Digits    == "0123456789"

CharsOf(s) == { Char(s, i) : i \in 1..Len(s) }

LowerMap == [ c \in CharsOf(UpperCase) |->
                Char(LowerCase, IndexFrom(UpperCase, {c}, 1)) ]

LowerChar(c) == IF c \in DOMAIN LowerMap THEN LowerMap[c] ELSE c

RECURSIVE Lower(_)
\* str.lower
Lower(s) == IF s = "" THEN "" ELSE LowerChar(Char(s, 1)) \o Lower(Tail(s))

\* --------------------------------------------------------------- urlparse
SchemeChars == CharsOf(UpperCase) \cup CharsOf(LowerCase) \cup CharsOf(Digits)
               \cup {"+", "-", "."}

\* urllib.parse.urlparse(uri): scheme (lower-cased), netloc and path
urlparse(uri) ==
    LET colon  == IndexFrom(uri, {":"}, 1)
        head   == SubSeq(uri, 1, colon - 1)
        hasSch == /\ colon <= Len(uri)
                  /\ colon > 1
                  /\ Char(uri, 1) \in CharsOf(UpperCase) \cup CharsOf(LowerCase)
                  /\ CharsOf(head) \subseteq SchemeChars
        rest   == IF hasSch THEN SubSeq(uri, colon + 1, Len(uri)) ELSE uri
        hasLoc == StartsWith(rest, "//")
        endLoc == IndexFrom(rest, {"/", "?", "#"}, 3)
    IN  [ scheme |-> IF hasSch THEN Lower(head) ELSE "",
          netloc |-> IF hasLoc THEN SubSeq(rest, 3, endLoc - 1) ELSE "",
          path   |-> IF hasLoc THEN SubSeq(rest, endLoc, Len(rest)) ELSE rest ]

\* utils.uri.uri_to_path(uri): the filesystem path of a file URI
uri_to_path(uri) == urlparse(uri).path

\* the bind addresses the configuration may hold for the runner
BindUris == { "file:///tmp/r.sock", "unix:///tmp/r.sock",
              "tcp://127.0.0.1:3000", "http://127.0.0.1:3000" }

\* the authority used with a domain socket (line 77)
UDS_ADDR == "http://127.0.0.1:8000"

RunnerName == "iris"

\* header carrying the payload metadata (runner.utils.PAYLOAD_META_HEADER)
PAYLOAD_META_HEADER == "Bento-Payload-Meta"

\* --------------------------------------------------------------- variables
VARIABLES
    self_loop,          \* self._loop: None or an event loop
    self_conn,          \* self._conn: None or a connector
    self_client_cache,  \* self._client_cache: None or a session (by value:
                        \* its identity and its fields)
    self_addr,          \* self._addr: None or the authority of requests
    deleted,            \* __del__ has run
    connectors,         \* every connector created, by identity 1..Len
    nSess,              \* sessions created so far, identities 1..nSess
    curLoop,            \* the loop asyncio.get_event_loop() returns
    nLoops,             \* event loops created so far, 1..nLoops
    loopClosed,         \* the loops for which is_closed() is true
    bind_uri,           \* remote_runner_mapping[runner.name]
    runners_config,     \* BentoMLContainer.runners_config
    pc,                 \* per call: "idle", "called", "sent" or "done"
    call,               \* per call: the method and arguments it was given
    req,                \* per call: the request it sent
    resp,               \* per call: the response it read
    outcome,            \* per call: what it raised or returned
    log,                \* configuration lookups of the latest call
    fresh,              \* calls whose request was sent since the latest
                        \* staleness event
    connBuilds,         \* connectors built since the latest staleness event
    sessBuilds,         \* sessions built since the latest staleness event
    posts,              \* per call: the POST requests it has sent
    resolved            \* the bind address the stored connector was built for

clientVars == << self_loop, self_conn, self_client_cache, self_addr >>
heapVars   == << connectors, nSess >>
loopVars   == << curLoop, nLoops, loopClosed >>
cfgVars    == << bind_uri, runners_config >>
taskVars   == << pc, call, req, resp, outcome >>
histVars   == << log, fresh, connBuilds, sessBuilds, posts, resolved >>
vars == << clientVars, deleted, heapVars, loopVars, cfgVars, taskVars, histVars >>

Tasks == 1..NumTasks

\* ------------------------------------------------------------- exceptions
Raise(type, msg) == [ type |-> type, msg |-> msg, value |-> None ]
Return(v)        == [ type |-> "return", msg |-> "", value |-> Some(v) ]

\* ----------------------------------------------------------- configuration
GlobalOnly == [ k \in {"timeout"} |-> 300 ]
PerRunner  == [ k \in {"timeout", RunnerName} |->
                  IF k = "timeout" THEN 300 ELSE [ timeout |-> 30 ] ]
RunnersConfigs == { GlobalOnly, PerRunner }

\* runner_timeout with the global key looked up first
runner_timeout_GlobalFirst ==
    IF "timeout" \in DOMAIN runners_config
    THEN runners_config["timeout"]
    ELSE runners_config[RunnerName]["timeout"]

\* runner_timeout: the runner's own entry when there is one, else the global
runner_timeout ==
    IF RunnerName \in DOMAIN runners_config
    THEN runners_config[RunnerName]["timeout"]
    ELSE runners_config["timeout"]

\* urlparse, tabulated over the bind addresses of the model
Parsed == [ u \in BindUris |-> urlparse(u) ]

\* ------------------------------------------------------------- _get_conn
\* ConnectorFor with "unix" taken for the scheme of domain sockets
ConnectorFor_UnixScheme(uri, lp) ==
    LET parsed == Parsed[uri]
    IN  IF parsed.scheme = "unix"
        THEN [ raised |-> None,
               conn   |-> Some([ kind |-> "UnixConnector",
                                 path |-> Some(uri_to_path(uri)),
                                 loop |-> lp, limit |-> 800,
                                 closed |-> FALSE ]),
               addr   |-> Some(UDS_ADDR) ]
        ELSE IF parsed.scheme = "tcp"
        THEN [ raised |-> None,
               conn   |-> Some([ kind |-> "TCPConnector",
                                 path |-> None,
                                 loop |-> lp, limit |-> 800,
                                 closed |-> FALSE ]),
               addr   |-> Some("http://" \o parsed.netloc) ]
        ELSE [ raised |-> Some(Raise("ValueError",
                              "Unsupported bind scheme: " \o parsed.scheme)),
               conn   |-> None,
               addr   |-> None ]

\* lines 67-87: the connector and authority for a bind address
ConnectorFor(uri, lp) ==
    LET parsed == Parsed[uri]
    IN  IF parsed.scheme = "file"
        THEN [ raised |-> None,
               conn   |-> Some([ kind |-> "UnixConnector",
                                 path |-> Some(uri_to_path(uri)),
                                 loop |-> lp, limit |-> 800,
                                 closed |-> FALSE ]),
               addr   |-> Some(UDS_ADDR) ]
        ELSE IF parsed.scheme = "tcp"
        THEN [ raised |-> None,
               conn   |-> Some([ kind |-> "TCPConnector",
                                 path |-> None,
                                 loop |-> lp, limit |-> 800,
                                 closed |-> FALSE ]),
               addr   |-> Some("http://" \o parsed.netloc) ]
        ELSE [ raised |-> Some(Raise("ValueError",
                              "Unsupported bind scheme: " \o parsed.scheme)),
               conn   |-> None,
               addr   |-> None ]

\* ConnStale with the test of the loop inverted
ConnStale_LoopTest ==
    \/ self_loop = None
    \/ self_conn = None
    \/ connectors[Val(self_conn)].closed
    \/ Val(self_loop) \notin loopClosed

\* lines 60-65: the test that makes _get_conn build a connector
ConnStale ==
    \/ self_loop = None
    \/ self_conn = None
    \/ connectors[Val(self_conn)].closed
    \/ Val(self_loop) \in loopClosed

\* get_conn_rebuild that clears the authority when the scheme is rejected
get_conn_rebuild_ClearAddr(r) ==
    LET ok == r.raised = None
    IN  [ raised     |-> r.raised,
          ret        |-> IF ok THEN Some(Len(connectors) + 1) ELSE None,
          loop       |-> Some(curLoop),
          conn       |-> IF ok THEN Some(Len(connectors) + 1) ELSE self_conn,
          addr       |-> IF ok THEN r.addr ELSE None,
          connectors |-> IF ok THEN Append(connectors, Val(r.conn))
                               ELSE connectors,
          built      |-> ok,
          lookup     |-> TRUE ]

\* lines 66-87: the stored loop becomes the current one, then the connector
\* and the authority are stored, unless the scheme is rejected (r)
get_conn_rebuild(r) ==
    LET ok == r.raised = None
    IN  [ raised     |-> r.raised,
          ret        |-> IF ok THEN Some(Len(connectors) + 1) ELSE None,
          loop       |-> Some(curLoop),
          conn       |-> IF ok THEN Some(Len(connectors) + 1) ELSE self_conn,
          addr       |-> IF ok THEN r.addr ELSE self_addr,
          connectors |-> IF ok THEN Append(connectors, Val(r.conn))
                               ELSE connectors,
          built      |-> ok,
          lookup     |-> TRUE ]

\* _get_conn(): what it raises or returns and what it leaves in the object
get_conn ==
    IF ConnStale
    THEN get_conn_rebuild(ConnectorFor(bind_uri, curLoop))
    ELSE [ raised     |-> None,
           ret        |-> self_conn,
           loop       |-> self_loop,
           conn       |-> self_conn,
           addr       |-> self_addr,
           connectors |-> connectors,
           built      |-> FALSE,
           lookup     |-> FALSE ]

\* ---------------------------------------------------------------- _client
\* ClientSession.closed: the session has no connector or a closed one
SessionClosed(s) ==
    \/ s.connector = None
    \/ connectors[Val(s.connector)].closed

\* ClientStale with the test of the loop inverted
ClientStale_LoopTest ==
    \/ self_loop = None
    \/ self_client_cache = None
    \/ SessionClosed(Val(self_client_cache))
    \/ Val(self_loop) \notin loopClosed

\* lines 96-101: the test that makes _client build a session
ClientStale ==
    \/ self_loop = None
    \/ self_client_cache = None
    \/ SessionClosed(Val(self_client_cache))
    \/ Val(self_loop) \in loopClosed

\* ClientSession built on the connector stored before _get_conn() ran
ClientSession_StoredConn(g, tmo) ==
    [ id              |-> nSess + 1,
      connector       |-> self_conn,
      connector_owner |-> FALSE,
      timeout         |-> tmo,
      loop            |-> Val(g.loop) ]

\* lines 112-127: the session built on the connector _get_conn() returned
ClientSession(g, tmo) ==
    [ id              |-> nSess + 1,
      connector       |-> g.ret,
      connector_owner |-> FALSE,
      timeout         |-> tmo,
      loop            |-> Val(g.loop) ]

\* lines 110-127: the timeout is read (tmo), _get_conn() is called (g), and
\* the session is stored unless _get_conn() raised
client_rebuild(tmo, g) ==
    LET ok == g.raised = None
    IN  [ raised     |-> g.raised,
          ret        |-> IF ok THEN Some(ClientSession(g, tmo)) ELSE None,
          loop       |-> g.loop,
          conn       |-> g.conn,
          addr       |-> g.addr,
          cache      |-> IF ok THEN Some(ClientSession(g, tmo))
                               ELSE self_client_cache,
          connectors |-> g.connectors,
          nSess      |-> IF ok THEN nSess + 1 ELSE nSess,
          connBuilt  |-> g.built,
          sessBuilt  |-> ok,
          log        |-> [ addr |-> g.lookup, timeout |-> TRUE ] ]

\* _client: what it raises or returns and what it leaves in the object
client ==
    IF ClientStale
    THEN client_rebuild(runner_timeout, get_conn)
    ELSE [ raised     |-> None,
           ret        |-> self_client_cache,
           loop       |-> self_loop,
           conn       |-> self_conn,
           addr       |-> self_addr,
           cache      |-> self_client_cache,
           connectors |-> connectors,
           nSess      |-> nSess,
           connBuilt  |-> FALSE,
           sessBuilt  |-> FALSE,
           log        |-> [ addr |-> FALSE, timeout |-> FALSE ] ]

\* ------------------------------------------------------ request encoding
MethodNames == { "__call__", "predict" }
Methods == [ name : MethodNames, batchable : BOOLEAN ]

BatchSizes == 1..MaxBatch
RECURSIVE SeqsUpTo(_, _)
SeqsUpTo(S, n) ==
    IF n = 0 THEN { << >> }
    ELSE LET shorter == SeqsUpTo(S, n - 1)
         IN  shorter \cup { Append(q, x) : q \in shorter, x \in S }

\* the batch sizes the encoded positional arguments report
ArgSizes == SeqsUpTo(BatchSizes, MaxArgs)
\* the batch sizes the encoded keyword arguments report
KwNames == { "x" }
KwSizes == UNION { [ D -> BatchSizes ] : D \in SUBSET KwNames }

\* Params.map(lambda i: i.batch_size).all_equal()
all_equal(args, kwargs) ==
    LET sizes == { args[i] : i \in DOMAIN args }
                 \cup { kwargs[k] : k \in DOMAIN kwargs }
    IN  Cardinality(sizes) <= 1

\* BatchCheckFails without the test of method.config.batchable
BatchCheckFails_AnyMethod(c) == ~ all_equal(c.args, c.kwargs)

\* lines 144-148: the batch check of a batchable method
BatchCheckFails(c) ==
    c.method.batchable /\ ~ all_equal(c.args, c.kwargs)

BatchError ==
    Raise("ValueError", "All batchable arguments must have the same batch size.")

\* PathOf without the case of the default call
PathOf_Name(name) == name

\* line 150
PathOf(name) == IF name = "__call__" THEN "" ELSE name

\* str() of an optional string, as an f-string formats it
Str(o) == IF o = None THEN "None" ELSE Val(o)

\* line 152: the URL of the request
UrlOf(addr, name) == Str(addr) \o "/" \o PathOf(name)

\* ----------------------------------------------------- response decoding
HTTP_OK == 200
Statuses == { HTTP_OK, 500 }

\* bodies: bytes that are UTF-8 text, and bytes that are not
Bodies == { [ utf8 |-> TRUE,  bytes |-> "boom" ],
            [ utf8 |-> FALSE, bytes |-> "\\xff\\xfe" ] }

\* values of the metadata header, and those json.loads accepts
MetaValues == { "{}", "{" }
JsonValid  == { "{}" }

VENDOR_PREFIX == "application/vnd.bentoml."
ContentTypes == { "application/vnd.bentoml.NdarrayContainer",
                  "application/vnd.bentoml.ndarray",
                  "Application/Vnd.BentoML.NdarrayContainer",
                  "text/html" }

\* a header map holding the given optional values
HeadersOf(meta, ctype) ==
    [ k \in (IF meta = None THEN {} ELSE { PAYLOAD_META_HEADER })
            \cup (IF ctype = None THEN {} ELSE { "Content-Type" })
      |-> IF k = PAYLOAD_META_HEADER THEN Val(meta) ELSE Val(ctype) ]

Opt(S) == { None } \cup { Some(x) : x \in S }

Responses ==
    { [ status |-> s, headers |-> HeadersOf(m, c), body |-> b ] :
        s \in Statuses, m \in Opt(MetaValues), c \in Opt(ContentTypes),
        b \in Bodies }

RECURSIVE lstrip(_, _)
lstrip(s, cs) ==
    IF s # "" /\ Char(s, 1) \in cs THEN lstrip(Tail(s), cs) ELSE s

RECURSIVE rstrip(_, _)
rstrip(s, cs) ==
    IF s # "" /\ Char(s, Len(s)) \in cs
    THEN rstrip(SubSeq(s, 1, Len(s) - 1), cs) ELSE s

\* str.strip(chars): drops leading and trailing characters that are in chars
strip(s, chars) == rstrip(lstrip(s, CharsOf(chars)), CharsOf(chars))

UnicodeError ==
    Raise("UnicodeDecodeError", "'utf-8' codec can't decode byte")

\* AutoContainer.from_payload(payload): the value the codec rebuilds
from_payload(payload) == payload

\* the text after "[status] " in a message: body.decode()
StatusAndBody(r) == "[" \o ToString(r.status) \o "] " \o r.body.bytes

\* lines 164-167
RemoteFaultOf(r) ==
    IF ~ r.body.utf8 THEN UnicodeError
    ELSE Raise("RemoteException",
               "An exception occurred in remote runner " \o RunnerName
               \o ": " \o StatusAndBody(r))

\* lines 169-176
MetaMissingOf(r) ==
    IF ~ r.body.utf8 THEN UnicodeError
    ELSE Raise("RemoteException",
               "Bento payload decode error: " \o PAYLOAD_META_HEADER
               \o " header not set. "
               \o "An exception might have occurred in the remote server."
               \o StatusAndBody(r))

\* lines 178-185
ContentTypeMissingOf(r) ==
    IF ~ r.body.utf8 THEN UnicodeError
    ELSE Raise("RemoteException",
               "Bento payload decode error: Content-Type header not set. "
               \o "An exception might have occurred in the remote server."
               \o StatusAndBody(r))

\* lines 187-190
ContentTypeInvalidOf(r) ==
    Raise("RemoteException",
          "Bento payload decode error: invalid Content-Type '"
          \o r.headers["Content-Type"] \o "'.")

\* line 187: the test of the Content-Type
PrefixOk(content_type) == StartsWith(Lower(content_type), VENDOR_PREFIX)

\* line 192
ContainerOf(content_type) == strip(content_type, VENDOR_PREFIX)

\* lines 194-201
PayloadOf(r) ==
    LET meta_header == r.headers[PAYLOAD_META_HEADER]
    IN  IF meta_header \notin JsonValid
        THEN Raise("ValueError", "Bento payload decode error: " \o meta_header)
        ELSE Return(from_payload(
                 [ data      |-> r.body.bytes,
                   meta      |-> meta_header,
                   container |-> ContainerOf(r.headers["Content-Type"]) ]))

\* lines 164-201: what async_run_method raises or returns for a response
Decode(r) ==
    IF r.status # HTTP_OK THEN RemoteFaultOf(r)
    ELSE IF PAYLOAD_META_HEADER \notin DOMAIN r.headers THEN MetaMissingOf(r)
    ELSE IF "Content-Type" \notin DOMAIN r.headers THEN ContentTypeMissingOf(r)
    ELSE IF ~ PrefixOk(r.headers["Content-Type"]) THEN ContentTypeInvalidOf(r)
    ELSE PayloadOf(r)

\* Decode, tabulated over the responses of the model
Decoded == [ r \in Responses |-> Decode(r) ]

\* ------------------------------------------------------------------- Init
NoLookup == [ addr |-> FALSE, timeout |-> FALSE ]

Init ==
    /\ self_loop = None                        \* lines 34-38
    /\ self_conn = None
    /\ self_client_cache = None
    /\ self_addr = None
    /\ deleted = FALSE
    /\ connectors = << >>
    /\ nSess = 0
    /\ curLoop = 1
    /\ nLoops = 1
    /\ loopClosed = {}
    /\ bind_uri \in BindUris
    /\ runners_config \in RunnersConfigs
    /\ pc = [ t \in Tasks |-> "idle" ]
    /\ call = [ t \in Tasks |-> None ]
    /\ req = [ t \in Tasks |-> None ]
    /\ resp = [ t \in Tasks |-> None ]
    /\ outcome = [ t \in Tasks |-> None ]
    /\ log = NoLookup
    /\ fresh = {}
    /\ connBuilds = 0
    /\ sessBuilds = 0
    /\ posts = [ t \in Tasks |-> 0 ]
    /\ resolved = None

\* ------------------------------------------------------------------ calls
\* async_run_method(method, *args, **kwargs) is called, directly or by
\* run_method through anyio.from_thread.run (lines 203-216): the coroutine
\* exists and has not run yet.
Invoke(t, m, a, kw, via) ==
    /\ ~ deleted
    /\ pc[t] = "idle"
    /\ pc' = [ pc EXCEPT ![t] = "called" ]
    /\ call' = [ call EXCEPT ![t] =
                   Some([ method |-> m, args |-> a, kwargs |-> kw, via |-> via ]) ]
    /\ UNCHANGED << clientVars, deleted, heapVars, loopVars, cfgVars,
                    req, resp, outcome, histVars >>

\* line 151: the request posted through the session _client returned
RequestOf(cl, name) ==
    [ verb    |-> "POST",
      url     |-> UrlOf(cl.addr, name),
      session |-> Val(cl.ret),
      loop    |-> curLoop ]

\* lines 138-161, up to the first suspension: the batch check raises, or
\* _client is evaluated and raises, or the request is posted
Start(t) ==
    /\ pc[t] = "called"
    /\ curLoop \notin loopClosed
    /\ IF BatchCheckFails(Val(call[t]))
       THEN /\ pc' = [ pc EXCEPT ![t] = "done" ]
            /\ outcome' = [ outcome EXCEPT ![t] = Some(BatchError) ]
            /\ log' = NoLookup
            /\ UNCHANGED << clientVars, heapVars, req, fresh,
                            connBuilds, sessBuilds, posts, resolved >>
       ELSE \E cl \in { client } :
                /\ Len(cl.connectors) <= MaxConns
                /\ cl.nSess <= MaxSess
                /\ self_loop' = cl.loop
                /\ self_conn' = cl.conn
                /\ self_addr' = cl.addr
                /\ self_client_cache' = cl.cache
                /\ connectors' = cl.connectors
                /\ nSess' = cl.nSess
                /\ log' = cl.log
                /\ connBuilds' = IF cl.connBuilt THEN connBuilds + 1
                                                 ELSE connBuilds
                /\ sessBuilds' = IF cl.sessBuilt THEN sessBuilds + 1
                                                 ELSE sessBuilds
                /\ resolved' = IF cl.connBuilt THEN Some(bind_uri)
                                               ELSE resolved
                /\ IF cl.raised # None
                   THEN /\ pc' = [ pc EXCEPT ![t] = "done" ]
                        /\ outcome' = [ outcome EXCEPT ![t] = cl.raised ]
                        /\ UNCHANGED << req, fresh, posts >>
                   ELSE /\ pc' = [ pc EXCEPT ![t] = "sent" ]
                        /\ req' = [ req EXCEPT ![t] =
                              Some(RequestOf(cl, Val(call[t]).method.name)) ]
                        /\ fresh' = fresh \cup { t }
                        /\ posts' = [ posts EXCEPT ![t] = @ + 1 ]
                        /\ UNCHANGED outcome
    /\ UNCHANGED << deleted, loopVars, cfgVars, call, resp >>

\* lines 161-201: the response is read and decoded
Receive(t, r) ==
    /\ pc[t] = "sent"
    /\ pc' = [ pc EXCEPT ![t] = "done" ]
    /\ resp' = [ resp EXCEPT ![t] = Some(r) ]
    /\ outcome' = [ outcome EXCEPT ![t] = Some(Decoded[r]) ]
    /\ call' = [ call EXCEPT ![t] = None ]
    /\ UNCHANGED << clientVars, deleted, heapVars, loopVars, cfgVars, req,
                    histVars >>

\* TransportFault that posts the request again instead of raising
TransportFault_Retry(t) ==
    /\ pc[t] = "sent"
    /\ posts' = [ posts EXCEPT ![t] = @ + 1 ]
    /\ UNCHANGED << clientVars, deleted, heapVars, loopVars, cfgVars, taskVars,
                    log, fresh, connBuilds, sessBuilds, resolved >>

\* lines 151-162: the transport raises (the session's timeout expires)
TransportFault(t) ==
    /\ pc[t] = "sent"
    /\ pc' = [ pc EXCEPT ![t] = "done" ]
    /\ outcome' = [ outcome EXCEPT ![t] = Some(Raise("TimeoutError", "")) ]
    /\ call' = [ call EXCEPT ![t] = None ]
    /\ UNCHANGED << clientVars, deleted, heapVars, loopVars, cfgVars, req, resp,
                    histVars >>

\* the caller has the outcome of its call
Complete(t) ==
    /\ pc[t] = "done"
    /\ pc' = [ pc EXCEPT ![t] = "idle" ]
    /\ call' = [ call EXCEPT ![t] = None ]
    /\ req' = [ req EXCEPT ![t] = None ]
    /\ resp' = [ resp EXCEPT ![t] = None ]
    /\ outcome' = [ outcome EXCEPT ![t] = None ]
    /\ fresh' = fresh \ { t }
    /\ posts' = [ posts EXCEPT ![t] = 0 ]
    /\ log' = NoLookup
    /\ UNCHANGED << clientVars, deleted, heapVars, loopVars, cfgVars,
                    connBuilds, sessBuilds, resolved >>

\* ----------------------------------------------------------- environment
\* a new event loop becomes the current one; the old one is closed or left
\* open (asyncio.set_event_loop(asyncio.new_event_loop()))
ReplaceLoop(close) ==
    /\ ~ deleted
    /\ nLoops < MaxLoops
    /\ \A t \in Tasks : pc[t] # "sent"
    /\ nLoops' = nLoops + 1
    /\ curLoop' = nLoops + 1
    /\ loopClosed' = IF close THEN loopClosed \cup { curLoop } ELSE loopClosed
    /\ fresh' = {}
    /\ connBuilds' = 0
    /\ sessBuilds' = 0
    /\ UNCHANGED << clientVars, deleted, heapVars, cfgVars, taskVars, log,
                    posts, resolved >>

\* CloseSession of a session that owns its connector (connector_owner=True)
CloseSession_Owner ==
    /\ ~ deleted
    /\ self_client_cache # None
    /\ ~ SessionClosed(Val(self_client_cache))
    /\ self_client_cache' =
          Some([ Val(self_client_cache) EXCEPT !.connector = None ])
    /\ connectors' =
          [ connectors EXCEPT
              ![Val(Val(self_client_cache).connector)].closed = TRUE ]
    /\ fresh' = {}
    /\ connBuilds' = 0
    /\ sessBuilds' = 0
    /\ UNCHANGED << self_loop, self_conn, self_addr, deleted, nSess,
                    loopVars, cfgVars, taskVars, log, posts, resolved >>

\* ClientSession.close() with connector_owner=False (line 123): the session
\* drops its connector and does not close it
CloseSession ==
    /\ ~ deleted
    /\ self_client_cache # None
    /\ ~ SessionClosed(Val(self_client_cache))
    /\ self_client_cache' =
          Some([ Val(self_client_cache) EXCEPT !.connector = None ])
    /\ fresh' = {}
    /\ connBuilds' = 0
    /\ sessBuilds' = 0
    /\ UNCHANGED << self_loop, self_conn, self_addr, deleted, heapVars,
                    loopVars, cfgVars, taskVars, log, posts, resolved >>

\* _close_conn() that closes nothing
close_conn_Noop == connectors

\* _close_conn() (lines 53-55): the connectors after it
close_conn ==
    IF self_conn # None
    THEN [ connectors EXCEPT ![Val(self_conn)].closed = TRUE ]
    ELSE connectors

\* the client is torn down by a call of _close_conn()
CloseConn ==
    /\ ~ deleted
    /\ self_conn # None
    /\ ~ connectors[Val(self_conn)].closed
    /\ connectors' = close_conn
    /\ fresh' = {}
    /\ connBuilds' = 0
    /\ sessBuilds' = 0
    /\ UNCHANGED << clientVars, deleted, nSess, loopVars, cfgVars,
                    taskVars, log, posts, resolved >>

\* __del__ (lines 218-219): no call holds the client any more
Del ==
    /\ ~ deleted
    /\ \A t \in Tasks : pc[t] = "idle"
    /\ deleted' = TRUE
    /\ connectors' = close_conn
    /\ UNCHANGED << clientVars, nSess, loopVars, cfgVars, taskVars, histVars >>

\* the configuration changes between calls
SetBindUri(u) ==
    /\ ~ deleted
    /\ u # bind_uri
    /\ bind_uri' = u
    /\ UNCHANGED << clientVars, deleted, heapVars, loopVars, runners_config,
                    taskVars, histVars >>

SetRunnersConfig(c) ==
    /\ ~ deleted
    /\ c # runners_config
    /\ runners_config' = c
    /\ UNCHANGED << clientVars, deleted, heapVars, loopVars, bind_uri,
                    taskVars, histVars >>

\* --------------------------------------------------------- specifications
\* the argument lists of the calls made through run_method: one argument,
\* and two arguments of different batch sizes
BlockingArgs == { << 1 >>, << 1, 2 >> }

\* a well-formed response
OkResponse ==
    [ status  |-> HTTP_OK,
      headers |-> HeadersOf(Some("{}"),
                            Some("application/vnd.bentoml.NdarrayContainer")),
      body    |-> [ utf8 |-> TRUE, bytes |-> "boom" ] ]

\* a call of a method that is not batchable, with one argument
PlainMethod == [ name |-> "predict", batchable |-> FALSE ]
\* the default call of a runner
DefaultMethod == [ name |-> "__call__", batchable |-> FALSE ]

\* Spec: the life of the client. One caller and one kind of call, while the
\* loop, the session, the connector and the bind address change.
Next ==
    \/ \E m \in { PlainMethod, DefaultMethod } :
          Invoke(1, m, << 1 >>, << >>, "async_run_method")
    \/ Start(1)
    \/ Receive(1, OkResponse)
    \/ Complete(1)
    \/ \E close \in BOOLEAN : ReplaceLoop(close)
    \/ CloseSession
    \/ CloseConn
    \/ Del
    \/ \E u \in BindUris : SetBindUri(u)

Spec == Init /\ [][Next]_vars

\* SpecCall: one call after another, with every method, argument list,
\* response and timeout configuration, on one loop and one bind address.
NextCall ==
    \/ \E m \in Methods, a \in ArgSizes, kw \in KwSizes :
          Invoke(1, m, a, kw, "async_run_method")
    \/ \E m \in Methods, a \in BlockingArgs :
          Invoke(1, m, a, << >>, "run_method")
    \/ Start(1)
    \/ \E r \in Responses : Receive(1, r)
    \/ TransportFault(1)
    \/ Complete(1)
    \/ CloseSession
    \/ \E c \in RunnersConfigs : SetRunnersConfig(c)

SpecCall == Init /\ [][NextCall]_vars

\* SpecConc: calls in progress at once, from tasks (async_run_method) and
\* from threads (run_method), while loops, sessions and connectors go stale.
\* Odd callers are threads, even callers are tasks of the loop.
ViaOf(t) == IF t % 2 = 1 THEN "run_method" ELSE "async_run_method"

InitConc ==
    /\ Init
    /\ bind_uri \in { "file:///tmp/r.sock", "tcp://127.0.0.1:3000" }
    /\ runners_config = GlobalOnly

NextConc ==
    \/ \E t \in Tasks : Invoke(t, PlainMethod, << 1 >>, << >>, ViaOf(t))
    \/ \E t \in Tasks : Start(t)
    \/ \E t \in Tasks : Receive(t, OkResponse)
    \/ \E t \in Tasks : Complete(t)
    \/ \E close \in BOOLEAN : ReplaceLoop(close)
    \/ CloseSession
    \/ CloseConn

SpecConc == InitConc /\ [][NextConc]_vars

\* ================================================================ claims
\* The error kinds of the specification, as the exceptions the code raises.
IsConfigurationError(o) ==
    o.type = "ValueError" /\ StartsWith(o.msg, "Unsupported bind scheme")
IsBatchValidationError(o) ==
    o.type = "ValueError" /\ StartsWith(o.msg, "All batchable arguments")
IsMetaValidationError(o) ==
    o.type = "ValueError" /\ StartsWith(o.msg, "Bento payload decode error")
IsRemoteFault(o) ==
    o.type = "RemoteException"
    /\ StartsWith(o.msg, "An exception occurred in remote runner")
IsProtocolError(o) ==
    o.type = "RemoteException"
    /\ StartsWith(o.msg, "Bento payload decode error")

\* the text of an address after its "scheme://"
AfterScheme(uri, scheme) == SubSeq(uri, Len(scheme) + 4, Len(uri))

\* The state right after a call resolved the bind address: what the
\* resolution left, when `socketScheme` is the scheme of domain sockets.
ResolvedAs(socketScheme) ==
    LET o == outcome[1]
    IN  IF StartsWith(bind_uri, socketScheme \o "://")
        THEN /\ o = None \/ ~ IsConfigurationError(Val(o))
             /\ self_conn # None
             /\ connectors[Val(self_conn)].kind = "UnixConnector"
             /\ connectors[Val(self_conn)].path
                   = Some(AfterScheme(bind_uri, socketScheme))
             /\ self_addr = Some(UDS_ADDR)
        ELSE IF StartsWith(bind_uri, "tcp://")
        THEN /\ o = None \/ ~ IsConfigurationError(Val(o))
             /\ self_conn # None
             /\ connectors[Val(self_conn)].kind = "TCPConnector"
             /\ connectors[Val(self_conn)].path = None
             /\ self_addr = Some("http://" \o AfterScheme(bind_uri, "tcp"))
        ELSE /\ pc[1] = "done"
             /\ o # None
             /\ IsConfigurationError(Val(o))
             /\ self_conn = None
             /\ self_addr = None

DoneResponses == { t \in Tasks : pc[t] = "done" /\ resp[t] # None }

\* C2: every response whose status is not 200 makes the call fail with
\* RemoteFault carrying the observed status and the body, whatever its
\* headers are.
C2_NonOkIsRemoteFault ==
    \A t \in DoneResponses :
        LET r == Val(resp[t])
            o == Val(outcome[t])
        IN  r.status # HTTP_OK =>
              /\ IsRemoteFault(o)
              /\ Contains(o.msg, ToString(r.status))
              /\ Contains(o.msg, r.body.bytes)

\* C2 for the bodies that are UTF-8 text (what the code does do)
C2_TextBody ==
    \A t \in DoneResponses :
        LET r == Val(resp[t])
            o == Val(outcome[t])
        IN  r.status # HTTP_OK /\ r.body.utf8 =>
              /\ IsRemoteFault(o)
              /\ Contains(o.msg, ToString(r.status))
              /\ Contains(o.msg, r.body.bytes)

\* the defects of a response with status 200
MetaMissing(r) == PAYLOAD_META_HEADER \notin DOMAIN r.headers
TypeMissing(r) == "Content-Type" \notin DOMAIN r.headers
TypeWrong(r) ==
    /\ ~ TypeMissing(r)
    /\ ~ StartsWith(Lower(r.headers["Content-Type"]), VENDOR_PREFIX)
MetaUnparseable(r) ==
    /\ ~ MetaMissing(r)
    /\ r.headers[PAYLOAD_META_HEADER] \notin JsonValid

\* C3: with status 200, each of the three defects taken alone (metadata
\* header missing, Content-Type missing, Content-Type without the vendor
\* prefix) makes the call fail with ProtocolError, and no value is returned.
C3_DefectIsProtocolError ==
    \A t \in DoneResponses :
        LET r == Val(resp[t])
            o == Val(outcome[t])
        IN  /\ r.status = HTTP_OK
            /\ \/ MetaMissing(r) /\ ~ TypeMissing(r) /\ ~ TypeWrong(r)
               \/ ~ MetaMissing(r) /\ TypeMissing(r)
               \/ ~ MetaMissing(r) /\ TypeWrong(r)
            => IsProtocolError(o) /\ o.value = None

\* the gate of the decoder that an outcome comes from
GateOf(o) ==
    IF IsRemoteFault(o) THEN "status"
    ELSE IF IsProtocolError(o)
            /\ Contains(o.msg, PAYLOAD_META_HEADER \o " header not set")
    THEN "meta-missing"
    ELSE IF IsProtocolError(o)
            /\ Contains(o.msg, "Content-Type header not set")
    THEN "type-missing"
    ELSE IF IsProtocolError(o) /\ Contains(o.msg, "invalid Content-Type")
    THEN "type-wrong"
    ELSE IF IsMetaValidationError(o) THEN "meta-unparseable"
    ELSE IF o.type = "return" THEN "none"
    ELSE "other"

\* the first gate, in the order of the specification, that a response fails
FirstFailingGate(r) ==
    IF r.status # HTTP_OK THEN "status"
    ELSE IF MetaMissing(r) THEN "meta-missing"
    ELSE IF TypeMissing(r) THEN "type-missing"
    ELSE IF TypeWrong(r) THEN "type-wrong"
    ELSE IF MetaUnparseable(r) THEN "meta-unparseable"
    ELSE "none"

\* C4: for every response, whatever combination of defects it carries, the
\* error raised is the one of the first failing gate in the order status,
\* metadata header missing, Content-Type missing, Content-Type prefix,
\* metadata unparseable; ValidationError for unparseable metadata is raised
\* only when the four earlier gates pass.
C4_FirstGateWins ==
    \A t \in DoneResponses :
        GateOf(Val(outcome[t])) = FirstFailingGate(Val(resp[t]))

\* C4 for the bodies that are UTF-8 text (what the code does do)
C4_TextBody ==
    \A t \in DoneResponses :
        Val(resp[t]).body.utf8 =>
            GateOf(Val(outcome[t])) = FirstFailingGate(Val(resp[t]))

\* the arguments of a call, positional and keyword, report two batch sizes
SizesDiffer(c) ==
    \/ \E i, j \in DOMAIN c.args : c.args[i] # c.args[j]
    \/ \E i \in DOMAIN c.args, k \in DOMAIN c.kwargs : c.args[i] # c.kwargs[k]
    \/ \E k, l \in DOMAIN c.kwargs : c.kwargs[k] # c.kwargs[l]

\* the calls that have run their batch check and still hold their arguments
Checked == { t \in Tasks : call[t] # None /\ pc[t] \in { "sent", "done" } }

\* C5: a call of a batchable method whose encoded arguments do not all
\* report the same batch size fails with the ValidationError of the batch
\* check and sends no request; a batchable call whose arguments agree, and
\* every call of a method that is not batchable, is not failed by the check.
C5_BatchCheck ==
    \A t \in Checked :
        LET c == Val(call[t])
        IN  IF c.method.batchable /\ SizesDiffer(c)
            THEN /\ pc[t] = "done"
                 /\ IsBatchValidationError(Val(outcome[t]))
                 /\ req[t] = None
            ELSE outcome[t] = None \/ ~ IsBatchValidationError(Val(outcome[t]))

C5_Witness ==
    \E t \in Checked :
        /\ Val(call[t]).method.batchable
        /\ Len(Val(call[t]).args) = 1
        /\ DOMAIN Val(call[t]).kwargs # {}
        /\ SizesDiffer(Val(call[t]))
        /\ IsBatchValidationError(Val(outcome[t]))
        /\ req[t] = None

\* -------------------------------------------------------------- lifecycle
\* a step in which call t runs up to its request or its first error
Started(t) == pc[t] = "called" /\ pc'[t] # "called"

Supported == Parsed[bind_uri].scheme \in { "file", "tcp" }

\* C6: in a state where a connector and a session have been built, once the
\* event loop has been replaced, the next call builds one connector and one
\* session, sends its request through the new session, and does not fail.
C6_RebuildOnNewLoop ==
    [][ \A t \in Tasks :
          /\ Started(t)
          /\ ~ BatchCheckFails(Val(call[t]))
          /\ self_conn # None /\ self_client_cache # None
          /\ self_loop # None /\ Val(self_loop) # curLoop
          /\ Supported
          => /\ Len(connectors') = Len(connectors) + 1
             /\ nSess' = nSess + 1
             /\ pc'[t] = "sent"
             /\ Val(req'[t]).session.id = nSess'
             /\ Val(req'[t]).session.loop = curLoop
             /\ Val(req'[t]).session.connector = Some(Len(connectors')) ]_vars

\* C7: every connector ever created is the one the client stores or is
\* closed (the previous connector is closed before it is replaced).
C7_NoConnectorLeak ==
    \A c \in 1..Len(connectors) :
        self_conn = Some(c) \/ connectors[c].closed

\* C6 for the loops that were closed when they were replaced (what the code
\* does do)
C6_ClosedLoop ==
    [][ \A t \in Tasks :
          /\ Started(t)
          /\ ~ BatchCheckFails(Val(call[t]))
          /\ self_conn # None /\ self_client_cache # None
          /\ self_loop # None /\ Val(self_loop) # curLoop
          /\ Val(self_loop) \in loopClosed
          /\ Supported
          => /\ Len(connectors') = Len(connectors) + 1
             /\ nSess' = nSess + 1
             /\ pc'[t] = "sent"
             /\ Val(req'[t]).session.id = nSess'
             /\ Val(req'[t]).session.loop = curLoop
             /\ Val(req'[t]).session.connector = Some(Len(connectors')) ]_vars

\* the connector of a session is open
ConnectorOpen(s) ==
    s.connector # None /\ ~ connectors[Val(s.connector)].closed

\* C8: once the client is destroyed its stored connector is closed and its
\* session is not open; and whenever the client takes its session for open
\* (it would hand it to a call as it is), the connector the session is bound
\* to is open.
C8_Teardown ==
    /\ deleted /\ self_conn # None => connectors[Val(self_conn)].closed
    /\ deleted /\ self_client_cache # None
          => ~ ConnectorOpen(Val(self_client_cache))
    /\ ~ ClientStale => ConnectorOpen(Val(self_client_cache))

C8_Witness ==
    /\ deleted
    /\ self_conn # None
    /\ connectors[Val(self_conn)].closed
    /\ self_client_cache # None
    /\ Val(self_client_cache).connector = self_conn

\* the stored loop is open and is the current loop
LoopValid ==
    self_loop = Some(curLoop) /\ curLoop \notin loopClosed
ConnValid ==
    LoopValid /\ self_conn # None /\ ~ connectors[Val(self_conn)].closed
SessValid ==
    LoopValid /\ self_client_cache # None
    /\ ConnectorOpen(Val(self_client_cache))

\* C9: while the stored loop is open and unchanged, a call that finds the
\* stored connector open gets that connector (no address lookup, no new
\* connector), and a call that finds the stored session open gets that
\* session (no timeout lookup, no new session).
C9_Idempotent ==
    [][ \A t \in Tasks :
          Started(t) /\ ~ BatchCheckFails(Val(call[t]))
          => /\ ConnValid
                => /\ self_conn' = self_conn
                   /\ connectors' = connectors
                   /\ self_addr' = self_addr
                   /\ ~ log'.addr
                   /\ pc'[t] = "sent"
                   /\ Val(req'[t]).session.connector = self_conn
             /\ SessValid
                => /\ self_client_cache' = self_client_cache
                   /\ nSess' = nSess
                   /\ log' = NoLookup
                   /\ pc'[t] = "sent"
                   /\ Val(req'[t]).session = Val(self_client_cache) ]_vars

\* a second session was built on the first connector, without a lookup of
\* the address
C9_Witness ==
    /\ pc[1] = "sent"
    /\ log.timeout /\ ~ log.addr
    /\ nSess = 2
    /\ Len(connectors) = 1
    /\ Val(req[1]).session.id = 2
    /\ Val(req[1]).session.connector = Some(1)

\* the calls that sent their request since the latest staleness event
FreshSent == { t \in fresh : pc[t] = "sent" }

\* C10: whatever the interleaving of the calls of tasks and threads, a
\* staleness is followed by at most one build of a connector and at most one
\* build of a session, and all the calls that send a request after it send
\* it through the one session the client stores, which is the rebuilt one
\* when a session was built.
C10_OneRebuild ==
    /\ connBuilds <= 1
    /\ sessBuilds <= 1
    /\ \A t \in FreshSent :
          /\ self_client_cache # None
          /\ Val(req[t]).session.id = Val(self_client_cache).id
          /\ sessBuilds = 1 => Val(req[t]).session.id = nSess

C10_Witness ==
    /\ nSess = 2
    /\ sessBuilds = 1
    /\ connBuilds = 1
    /\ loopClosed # {}
    /\ \E t, u \in FreshSent :
          /\ Val(call[t]).via = "run_method"
          /\ Val(call[u]).via = "async_run_method"
          /\ Val(req[t]).session.id = 2
          /\ Val(req[u]).session.id = 2

\* ------------------------------------------------------------ propagation
\* the failure a finished call met, if any
Failed(t) ==
    \/ resp[t] # None /\ FirstFailingGate(Val(resp[t])) # "none"
    \/ resp[t] = None

\* C11: a call, made as a coroutine or through run_method, sends at most one
\* POST request; a call that is done has an outcome; and a call that met a
\* failure (batch check, unsupported scheme, a response that fails a gate of
\* the decoder, a transport timeout) has an error for outcome, never a
\* value, having sent no request before the errors that precede the POST
\* and one request otherwise.
C11_NoRetry ==
    \A t \in Tasks :
        /\ posts[t] <= 1
        /\ pc[t] \in { "idle", "called" } => posts[t] = 0
        /\ pc[t] = "sent" => posts[t] = 1
        /\ pc[t] = "done" =>
              /\ outcome[t] # None
              /\ posts[t] = IF req[t] = None THEN 0 ELSE 1
              /\ Failed(t) => Val(outcome[t]).type # "return"
              /\ ~ Failed(t) => Val(outcome[t]).type = "return"
              /\ req[t] = None =>
                    \/ IsBatchValidationError(Val(outcome[t]))
                    \/ IsConfigurationError(Val(outcome[t]))

C11_Witness ==
    \E t \in Tasks :
        /\ pc[t] = "done"
        /\ req[t] # None
        /\ Val(req[t]).session.timeout = 30
        /\ Val(outcome[t]).type = "TimeoutError"
        /\ posts[t] = 1

\* ------------------------------------------------------ unsupported scheme
\* what C12 says of a call that runs while the bind address is unsupported
FailsUnsupported(t) ==
    /\ pc'[t] = "done"
    /\ outcome'[t] # None
    /\ IsConfigurationError(Val(outcome'[t]))
    /\ connectors' = connectors
    /\ nSess' = nSess
    /\ req'[t] = None
    /\ posts'[t] = 0

\* a rebuild failed: the stored loop is not the loop of the stored connector
AfterFailedRebuild ==
    /\ self_loop # None
    /\ self_conn # None
    /\ connectors[Val(self_conn)].loop # Val(self_loop)

\* C12: while the bind address has a scheme other than the supported ones, a
\* call fails with ConfigurationError, creates no connector and no session,
\* and sends no request; the first call and every later one.
C12_EveryCall ==
    [][ \A t \in Tasks :
          Started(t) /\ ~ BatchCheckFails(Val(call[t])) /\ ~ Supported
          => FailsUnsupported(t) ]_vars

\* C12, for the later calls: once a call has failed on the unsupported
\* address while rebuilding, every later call made while the address is
\* still unsupported fails with ConfigurationError too, creates no
\* connector and no session, and sends no request.
C12_AfterFailure ==
    [][ \A t \in Tasks :
          /\ Started(t) /\ ~ BatchCheckFails(Val(call[t])) /\ ~ Supported
          /\ AfterFailedRebuild
          => FailsUnsupported(t) ]_vars

\* C12 for the calls that resolve the address (what the code does do): the
\* client holds no usable session and no usable connector
C12_OnResolve ==
    [][ \A t \in Tasks :
          /\ Started(t) /\ ~ BatchCheckFails(Val(call[t])) /\ ~ Supported
          /\ ClientStale /\ ConnStale
          => FailsUnsupported(t) ]_vars

\* ---------------------------------------------------------- classification
\* the class of failure a gate of the decoder stands for
ClassOfGate(g) ==
    IF g = "status" THEN "remote"
    ELSE IF g \in { "meta-missing", "type-missing", "type-wrong" }
    THEN "protocol"
    ELSE IF g = "meta-unparseable" THEN "validation"
    ELSE "none"

\* the error kind of the specification that stands for a class of failure
KindOfClass(c) ==
    IF c = "remote" THEN "RemoteFault"
    ELSE IF c = "protocol" THEN "ProtocolError"
    ELSE IF c = "validation" THEN "ValidationError"
    ELSE "ConfigurationError"

\* the error kind of an outcome, told by its exception type and its message
KindOf(o) ==
    IF IsRemoteFault(o) THEN "RemoteFault"
    ELSE IF IsProtocolError(o) THEN "ProtocolError"
    ELSE IF IsBatchValidationError(o) \/ IsMetaValidationError(o)
    THEN "ValidationError"
    ELSE IF IsConfigurationError(o) THEN "ConfigurationError"
    ELSE o.type

\* the error kind of an outcome, told by its exception type alone
TypeOf(o) == o.type

\* every failure of the four classes with the outcome the code gives it
Faults ==
    { << ClassOfGate(FirstFailingGate(r)), Decoded[r] >> :
        r \in { q \in Responses : FirstFailingGate(q) # "none" } }
    \cup { << "validation", BatchError >> }
    \cup { << "configuration", Val(ConnectorFor(u, 1).raised) >> :
             u \in { v \in BindUris : ConnectorFor(v, 1).raised # None } }

\* the calls that are done and failed, other than by the transport
FailedCalls ==
    { t \in Tasks : /\ pc[t] = "done"
                    /\ Val(outcome[t]).type \notin { "return", "TimeoutError" } }

\* the class of the failure of a failed call
ClassOfCall(t) ==
    IF resp[t] # None THEN ClassOfGate(FirstFailingGate(Val(resp[t])))
    ELSE IF IsBatchValidationError(Val(outcome[t])) THEN "validation"
    ELSE "configuration"

\* C13: the kind of the error a call raises identifies the class of its
\* failure: RemoteFault only for a status that is not 200, ProtocolError only
\* for a missing metadata header, a missing Content-Type or a wrong prefix,
\* ValidationError only for a batch-size mismatch or unparseable metadata,
\* ConfigurationError only for an unsupported scheme, and no failure of
\* another class surfaces as an error of the same kind. The kind is read
\* here from the exception type together with its message.
C13_Unambiguous ==
    \A t \in FailedCalls :
        LET o == Val(outcome[t])
        IN  /\ KindOf(o) = KindOfClass(ClassOfCall(t))
            /\ \A f \in Faults :
                  KindOf(f[2]) = KindOf(o) => f[1] = ClassOfCall(t)

\* C13 with the kind of an error read from its exception type alone
C13_ByType ==
    \A t \in FailedCalls :
        \A f \in Faults :
            TypeOf(f[2]) = TypeOf(Val(outcome[t])) => f[1] = ClassOfCall(t)

\* C13 for the responses whose body is UTF-8 text, the kind read from the
\* exception type together with its message (what the code does do)
C13_TextBody ==
    \A t \in FailedCalls :
        LET o == Val(outcome[t])
        IN  (resp[t] # None => Val(resp[t]).body.utf8)
            => /\ KindOf(o) = KindOfClass(ClassOfCall(t))
               /\ \A f \in Faults :
                     KindOf(f[2]) = KindOf(o) /\ f[2].type # "UnicodeDecodeError"
                     => f[1] = ClassOfCall(t)

\* ------------------------------------------------------------ stale pools
\* the calls whose request is in flight
InFlight == { t \in Tasks : pc[t] = "sent" }

\* the loop under which the connector of a session was created
ConnectorLoop(s) == connectors[Val(s.connector)].loop

\* C14: no call sends a request through a session or a connector that was
\* created under a loop which is closed or which is not the loop current
\* when the request is sent, in every reachable state: after the loop was
\* replaced, after a rebuild that failed, after the bind address changed.
C14_NoStaleReuse ==
    \A t \in InFlight :
        LET r == Val(req[t])
        IN  /\ r.session.loop = r.loop
            /\ r.session.loop \notin loopClosed
            /\ ConnectorLoop(r.session) = r.loop
            /\ ConnectorLoop(r.session) \notin loopClosed

\* C14 for closed loops alone: no request goes through a session or a
\* connector created under a loop that is closed
C14_ClosedLoop ==
    \A t \in InFlight :
        LET r == Val(req[t])
        IN  /\ r.session.loop \notin loopClosed
            /\ ConnectorLoop(r.session) \notin loopClosed

\* ------------------------------------------------------------ diagnostics
\* the message of an outcome holds the status and the body of a response
CarriesStatusAndBody(o, r) ==
    /\ Contains(o.msg, "[" \o ToString(r.status) \o "]")
    /\ Contains(o.msg, r.body.bytes)

\* C15: every ProtocolError the decoder raises (metadata header missing,
\* Content-Type missing, Content-Type without the vendor prefix) carries the
\* status and the body of the response.
C15_ProtocolErrorCarries ==
    \A t \in DoneResponses :
        IsProtocolError(Val(outcome[t]))
        => CarriesStatusAndBody(Val(outcome[t]), Val(resp[t]))

\* C15 for the two missing headers (what the code does do)
C15_MissingHeader ==
    \A t \in DoneResponses :
        /\ IsProtocolError(Val(outcome[t]))
        /\ GateOf(Val(outcome[t])) \in { "meta-missing", "type-missing" }
        => CarriesStatusAndBody(Val(outcome[t]), Val(resp[t]))

\* ----------------------------------------------------------- container tag
\* a Content-Type without its first Len(VENDOR_PREFIX) characters
AfterPrefix(content_type) ==
    SubSeq(content_type, Len(VENDOR_PREFIX) + 1, Len(content_type))

\* the calls that are done and returned a value
Returned == { t \in DoneResponses : Val(outcome[t]).type = "return" }

\* C16: for every response that passes the gate of the Content-Type prefix,
\* the container tag handed to the codec is the Content-Type with the
\* leading vendor prefix removed and nothing else removed, for every tag and
\* every letter case of the prefix that the gate accepts.
C16_TagIsSuffix ==
    \A t \in Returned :
        Val(Val(outcome[t]).value).container
            = AfterPrefix(Val(resp[t]).headers["Content-Type"])

\* C16 for the one Content-Type of the model whose tag neither starts nor
\* ends with a character of the prefix and whose prefix is in lower case
C16_NdarrayContainer ==
    \A t \in Returned :
        Val(resp[t]).headers["Content-Type"]
            = "application/vnd.bentoml.NdarrayContainer"
        => Val(Val(outcome[t]).value).container = "NdarrayContainer"

\* ---------------------------------------------------------------- timeout
\* the timeout the configuration holds for the runner: 30 when it has an
\* entry for the runner, the global 300 when it has none
ConfiguredTimeout ==
    IF runners_config = PerRunner THEN PerRunner[RunnerName]["timeout"]
    ELSE GlobalOnly["timeout"]

AuthorityOf(uri) ==
    IF StartsWith(uri, "file://") THEN UDS_ADDR
    ELSE "http://" \o AfterScheme(uri, "tcp")

\* C18: every request in flight is a POST to <authority>/<path>, the path
\* empty for the default call __call__ (the target is the root) and the name
\* of the method otherwise, the authority the one resolved from the bind
\* address when the stored connector was built.
C18_RequestTarget ==
    \A t \in InFlight :
        LET name == Val(call[t]).method.name
        IN  /\ Val(req[t]).verb = "POST"
            /\ resolved # None
            /\ Val(req[t]).url =
                  AuthorityOf(Val(resolved)) \o "/"
                  \o (IF name = "__call__" THEN "" ELSE name)

\* the default call goes to the root of the authority resolved for the
\* connector, after the bind address has changed
C18_Witness ==
    \E t \in InFlight :
        /\ Val(call[t]).method.name = "__call__"
        /\ Val(req[t]).url = "http://127.0.0.1:3000/"
        /\ resolved = Some("tcp://127.0.0.1:3000")
        /\ bind_uri = "file:///tmp/r.sock"

\* ------------------------------------------------------------ session close
\* a step that closes the stored session
SessionCloses ==
    /\ self_client_cache # None
    /\ ~ SessionClosed(Val(self_client_cache))
    /\ self_client_cache' # None
    /\ Val(self_client_cache').id = Val(self_client_cache).id
    /\ Val(self_client_cache').connector = None

\* the stored session was closed, and the stored connector and loop are usable
SessionWasClosed ==
    /\ self_client_cache # None
    /\ Val(self_client_cache).connector = None
    /\ ConnValid

\* C19: the step that closes the session leaves the stored connector the same
\* object, open, with the same authority; and the next call, finding the
\* session closed, builds a new session on that connector, builds no
\* connector and does not look the bind address up.
C19_SessionClose ==
    [][ /\ SessionCloses
           => /\ self_conn' = self_conn
              /\ self_addr' = self_addr
              /\ connectors' = connectors
              /\ self_conn # None
              /\ ~ connectors'[Val(self_conn)].closed
        /\ \A t \in Tasks :
              Started(t) /\ ~ BatchCheckFails(Val(call[t])) /\ SessionWasClosed
              => /\ nSess' = nSess + 1
                 /\ Val(self_client_cache').id = nSess'
                 /\ Val(self_client_cache').connector = self_conn
                 /\ self_conn' = self_conn
                 /\ self_addr' = self_addr
                 /\ connectors' = connectors
                 /\ ~ log'.addr
                 /\ resolved' = resolved
                 /\ pc'[t] = "sent"
                 /\ Val(req'[t]).session = Val(self_client_cache') ]_vars

\* the session was closed and a call has built the next one on the same
\* connector, the bind address having changed in between
C19_Witness ==
    /\ pc[1] = "sent"
    /\ Val(req[1]).session.id = 2
    /\ Val(req[1]).session.connector = Some(1)
    /\ self_conn = Some(1)
    /\ ~ connectors[1].closed
    /\ Len(connectors) = 1
    /\ resolved # Some(bind_uri)

\* ------------------------------------------------- connector and authority
\* the stored authority is defined exactly when a connector is stored, and
\* it is the authority of the connector's kind
AddrMatchesConn ==
    /\ self_addr # None <=> self_conn # None
    /\ self_conn # None =>
          LET c == connectors[Val(self_conn)]
          IN  /\ resolved # None
              /\ c.kind = "UnixConnector" =>
                    /\ StartsWith(Val(resolved), "file://")
                    /\ self_addr = Some(UDS_ADDR)
              /\ c.kind = "TCPConnector" =>
                    /\ StartsWith(Val(resolved), "tcp://")
                    /\ self_addr
                         = Some("http://" \o AfterScheme(Val(resolved), "tcp"))
              /\ c.kind \in { "UnixConnector", "TCPConnector" }

\* C20: in every reachable state the stored authority is defined if and only
\* if a connector is stored, and it matches the kind of the connector (the
\* placeholder for a domain socket, http://<host:port> of the resolved
\* address for a networked connector); and a call that fails on an
\* unsupported scheme changes neither the connector nor the authority.
C20_SetTogether ==
    /\ [] AddrMatchesConn
    /\ [][ \A t \in Tasks :
             /\ Started(t)
             /\ outcome'[t] # None
             /\ IsConfigurationError(Val(outcome'[t]))
             => /\ self_conn' = self_conn
                /\ self_addr' = self_addr
                /\ connectors' = connectors ]_vars

\* a rebuild has failed on an unsupported scheme and the client still
\* stores the networked connector and its authority
C20_Witness ==
    /\ pc[1] = "done"
    /\ IsConfigurationError(Val(outcome[1]))
    /\ AfterFailedRebuild
    /\ connectors[Val(self_conn)].kind = "TCPConnector"
    /\ self_addr = Some("http://127.0.0.1:3000")

\* ---------------------------------------------- session-connector coherence
\* C21: in every reachable state where the client holds a session, the
\* session is bound to the connector the client stores.
C21_HeldSessionBound ==
    self_client_cache # None
    => Val(self_client_cache).connector = self_conn

\* the stored session, unless it was closed, is bound to the stored connector
OpenSessionBound ==
    self_client_cache # None /\ Val(self_client_cache).connector # None
    => Val(self_client_cache).connector = self_conn

\* C21 amended: in every reachable state where the client holds a session
\* that has not been closed, the session is bound to the connector the
\* client stores (a closed session is bound to none); the stored connector
\* is replaced only by a step that also builds a session on the new
\* connector; and every request is sent through the stored session, bound to
\* the stored connector.
C21_OpenSessionBound ==
    /\ [] OpenSessionBound
    /\ [][ /\ self_conn' # self_conn
               => /\ nSess' = nSess + 1
                  /\ Val(self_client_cache').id = nSess'
                  /\ Val(self_client_cache').connector = self_conn'
           /\ \A t \in Tasks :
                 Started(t) /\ pc'[t] = "sent"
                 => /\ Val(req'[t]).session = Val(self_client_cache')
                    /\ self_conn' # None
                    /\ Val(req'[t]).session.connector = self_conn' ]_vars

\* the stored connector was closed, and a call has replaced it together with
\* the session
C21_Witness ==
    /\ pc[1] = "sent"
    /\ Len(connectors) = 2
    /\ connectors[1].closed
    /\ self_conn = Some(2)
    /\ Val(self_client_cache).id = 2
    /\ Val(self_client_cache).connector = Some(2)
    /\ Val(req[1]).session = Val(self_client_cache)

====
